---------------------------- MODULE Spec2Model ----------------------------
(***************************************************************************)
(* Receipt scanner (src/main.go): the two gin handlers scanReceipt and     *)
(* getPoints over the process-wide map receiptPoints.                      *)
(*                                                                         *)
(* A Go string is modelled as a sequence of runes, each rune a TLA+ string *)
(* token: an ASCII character stands for itself, a non-ASCII rune is named  *)
(* by its code point ("U+00E9").  Utf8Len gives the bytes a rune takes, so *)
(* that len(s) (bytes) and the rune count of s are different operators.    *)
(*                                                                         *)
(* A float64 obtained from a decimal string is modelled exactly, as        *)
(* mant / 10^scale with a sign, or as one of the special values Inf and    *)
(* NaN.  For the strings of the input sets below (at most 8 significant    *)
(* digits) the float64 tests of the code (Floor(x) == x, Mod(x, 0.25) == 0,*)
(* Ceil(x * 0.2)) give the same answers as the exact ones.                 *)
(***************************************************************************)
EXTENDS Integers, Sequences, FiniteSets, TLC

VARIABLES
    receiptPoints,  \* main.go:29, the map id -> points
    uuidCount,      \* how many identifiers uuid.New() has produced
    lastReq,        \* the request the serial server handled last
    lastResp,       \* the response it wrote
    log,            \* history: <<id, points>> of every 201 response, in order
    pc,             \* concurrent server: where each handler goroutine is
    local,          \* concurrent server: the goroutine's uniqueID/points or inputId
    resp,           \* concurrent server: the response each goroutine wrote last
    raced,          \* goroutines whose map access overlapped a map write
    crashed         \* the runtime has thrown "concurrent map ..." (fatal)

vars == <<receiptPoints, uuidCount, lastReq, lastResp, log, pc, local, resp, raced, crashed>>

----------------------------------------------------------------------------
(* Bounds *)

\* successful submissions per run
MaxReceipts == 2
\* handler goroutines that can be in flight at once
NumHandlers == 2

----------------------------------------------------------------------------
(* Runes and strings *)

DigitChars == <<"0","1","2","3","4","5","6","7","8","9">>

IsAsciiDigit(c) == \E i \in 1..10 : DigitChars[i] = c

DigitVal(c) == (CHOOSE i \in 1..10 : DigitChars[i] = c) - 1

AsciiLetters ==
    {"a","b","c","d","e","f","g","h","i","j","k","l","m","n","o","p","q","r","s","t","u","v","w","x","y","z",
     "A","B","C","D","E","F","G","H","I","J","K","L","M","N","O","P","Q","R","S","T","U","V","W","X","Y","Z"}

\* U+00E9 (e acute) and U+00FC (u diaeresis) are letters, U+0663 is the
\* Arabic-Indic digit three, U+00A0 is NO-BREAK SPACE, U+20AC the euro sign.
UnicodeIsLetter(c) == c \in AsciiLetters \cup {"U+00E9", "U+00FC"}

UnicodeIsDigit(c) == IsAsciiDigit(c) \/ c = "U+0663"

UnicodeIsSpace(c) == c \in {" ", "\t", "\n", "\r", "U+00A0"}

Utf8Len(c) ==
    CASE c \in {"U+00E9", "U+00FC", "U+0663", "U+00A0"} -> 2
      [] c = "U+20AC" -> 3
      [] OTHER -> 1

RECURSIVE ByteLen(_)
ByteLen(s) == IF s = <<>> THEN 0 ELSE Utf8Len(Head(s)) + ByteLen(Tail(s))

RuneCount(s) == Len(s)

RECURSIVE TrimLeft(_)
TrimLeft(s) ==
    IF s # <<>> /\ UnicodeIsSpace(Head(s)) THEN TrimLeft(Tail(s)) ELSE s

RECURSIVE TrimRight(_)
TrimRight(s) ==
    IF s # <<>> /\ UnicodeIsSpace(s[Len(s)])
    THEN TrimRight(SubSeq(s, 1, Len(s) - 1))
    ELSE s

TrimSpace(s) == TrimRight(TrimLeft(s))

ToLower(c) ==
    CASE c = "I" -> "i" [] c = "N" -> "n" [] c = "F" -> "f" [] c = "T" -> "t"
      [] c = "Y" -> "y" [] c = "A" -> "a" [] OTHER -> c

LowerAll(s) == [i \in 1..Len(s) |-> ToLower(s[i])]

\* the number of consecutive ASCII digits of s from position i on
RECURSIVE DigitRun(_, _)
DigitRun(s, i) ==
    IF i <= Len(s) /\ IsAsciiDigit(s[i]) THEN 1 + DigitRun(s, i + 1) ELSE 0

\* the value of the n digits of s from position i on
RECURSIVE DigitsValue(_, _, _)
DigitsValue(s, i, n) ==
    IF n = 0 THEN 0
    ELSE 10 * DigitsValue(s, i, n - 1) + DigitVal(s[i + n - 1])

RECURSIVE Pow10(_)
Pow10(n) == IF n = 0 THEN 1 ELSE 10 * Pow10(n - 1)

----------------------------------------------------------------------------
(* strconv.ParseFloat(s, 64): the special values and the decimal form      *)
(* [sign] digits [. digits] [e [sign] digits].  The hexadecimal and the    *)
(* underscore forms use runes ("x", "p", "_") no string of the input sets  *)
(* below contains in a number position.                                    *)

NoFloat == [ok |-> FALSE, kind |-> "err", neg |-> FALSE, mant |-> 0, scale |-> 0]

Finite(neg, digits, scale0) ==
    [ok |-> TRUE, kind |-> "fin", neg |-> neg,
     mant  |-> IF scale0 < 0 THEN digits * Pow10(-scale0) ELSE digits,
     scale |-> IF scale0 < 0 THEN 0 ELSE scale0]

\* readFloat's mantissa loop from position i on: digits with at most one "."
RECURSIVE ReadMantissa(_, _, _)
ReadMantissa(b, i, m) ==
    IF i <= Len(b) /\ b[i] = "." /\ ~m.sawdot
    THEN ReadMantissa(b, i + 1, [m EXCEPT !.sawdot = TRUE])
    ELSE IF i <= Len(b) /\ IsAsciiDigit(b[i])
    THEN ReadMantissa(b, i + 1,
             [m EXCEPT !.sawdigits = TRUE,
                       !.mant = 10 * @ + DigitVal(b[i]),
                       !.frac = IF m.sawdot THEN @ + 1 ELSE @])
    ELSE [m EXCEPT !.next = i]

\* readFloat's exponent, the "e" at position i: [sign] digits to the end
ReadExponent(b, neg, m, i) ==
    IF i + 1 <= Len(b) /\ b[i + 1] \in {"+", "-"}
    THEN IF DigitRun(b, i + 2) >= 1 /\ i + 1 + DigitRun(b, i + 2) = Len(b)
         THEN Finite(neg, m.mant,
                     IF b[i + 1] = "-"
                     THEN m.frac + DigitsValue(b, i + 2, Len(b) - i - 1)
                     ELSE m.frac - DigitsValue(b, i + 2, Len(b) - i - 1))
         ELSE NoFloat
    ELSE IF DigitRun(b, i + 1) >= 1 /\ i + DigitRun(b, i + 1) = Len(b)
         THEN Finite(neg, m.mant, m.frac - DigitsValue(b, i + 1, Len(b) - i))
         ELSE NoFloat

\* what follows the mantissa m of b: the end, or an exponent
AfterMantissa(b, neg, m) ==
    IF ~m.sawdigits THEN NoFloat
    ELSE IF m.next > Len(b) THEN Finite(neg, m.mant, m.frac)
    ELSE IF b[m.next] \in {"e", "E"} THEN ReadExponent(b, neg, m, m.next)
    ELSE NoFloat

\* readFloat: the decimal form of b (the sign already taken off)
ReadDecimal(b, neg) ==
    AfterMantissa(b, neg,
        ReadMantissa(b, 1, [sawdot |-> FALSE, sawdigits |-> FALSE, mant |-> 0,
                            frac |-> 0, next |-> 0]))

ParseFloat(s) ==
    LET hasSign == s # <<>> /\ s[1] \in {"+", "-"}
        neg     == hasSign /\ s[1] = "-"
        body    == IF hasSign THEN Tail(s) ELSE s
        low     == LowerAll(body)
    IN  IF low \in {<<"i","n","f">>, <<"i","n","f","i","n","i","t","y">>}
        THEN [ok |-> TRUE, kind |-> "inf", neg |-> neg, mant |-> 0, scale |-> 0]
        ELSE IF ~hasSign /\ low = <<"n","a","n">>
        THEN [ok |-> TRUE, kind |-> "nan", neg |-> FALSE, mant |-> 0, scale |-> 0]
        ELSE ReadDecimal(body, neg)

\* math.Floor(x) == x
FloorIsSelf(x) ==
    CASE x.kind = "nan" -> FALSE
      [] x.kind = "inf" -> TRUE
      [] OTHER -> x.mant % Pow10(x.scale) = 0

\* math.Mod(x, 0.25) == 0   (Mod of an infinity or a NaN is NaN)
ModQuarterIsZero(x) ==
    CASE x.kind \in {"nan", "inf"} -> FALSE
      [] OTHER -> (4 * x.mant) % Pow10(x.scale) = 0

\* int(math.Ceil(x * 0.2)) for a finite x; the conversion of an infinity or
\* a NaN to int is implementation-defined and no price of the input sets is one
CeilFifth(x) ==
    CASE x.kind = "fin" ->
        LET den == 5 * Pow10(x.scale)
        IN  IF x.neg THEN -(x.mant \div den) ELSE (x.mant + den - 1) \div den

----------------------------------------------------------------------------
(* time.Parse *)

NoTime == [ok |-> FALSE, year |-> 0, month |-> 0, day |-> 0, hour |-> 0, minute |-> 0]

IsLeap(y) == y % 4 = 0 /\ (y % 100 # 0 \/ y % 400 = 0)

DaysIn(m, y) ==
    IF m = 2 THEN (IF IsLeap(y) THEN 29 ELSE 28)
    ELSE IF m \in {4, 6, 9, 11} THEN 30 ELSE 31

\* time.Parse("2006-01-02", s)
ParseDate(s) ==
    LET shaped == Len(s) = 10 /\ DigitRun(s, 1) = 4 /\ s[5] = "-"
                    /\ DigitRun(s, 6) = 2 /\ s[8] = "-" /\ DigitRun(s, 9) = 2
        y == DigitsValue(s, 1, 4)
        m == DigitsValue(s, 6, 2)
        d == DigitsValue(s, 9, 2)
    IN  IF shaped /\ m >= 1 /\ m <= 12 /\ d >= 1 /\ d <= DaysIn(m, y)
        THEN [ok |-> TRUE, year |-> y, month |-> m, day |-> d, hour |-> 0, minute |-> 0]
        ELSE NoTime

\* time.Parse("15:04", s): the hour takes one or two digits, the minute two
ParseTime(s) ==
    LET hLen   == IF DigitRun(s, 1) >= 2 THEN 2 ELSE DigitRun(s, 1)
        shaped == hLen >= 1 /\ Len(s) = hLen + 3 /\ s[hLen + 1] = ":"
                    /\ DigitRun(s, hLen + 2) = 2
        h == DigitsValue(s, 1, hLen)
        m == DigitsValue(s, hLen + 2, 2)
    IN  IF shaped /\ h < 24 /\ m < 60
        THEN [ok |-> TRUE, year |-> 0, month |-> 1, day |-> 1, hour |-> h, minute |-> m]
        ELSE NoTime

----------------------------------------------------------------------------
(* Responses (gin.H bodies with their HTTP status) *)

StatusOK == 200
StatusCreated == 201
StatusBadRequest == 400
StatusNotFound == 404

MsgBind  == "Failed to bind the request's JSON to type: Receipt."
MsgTotal == "Failed to parse receipt total to float."
MsgDate  == "Failed to parse receipt purchaseDate."
MsgTime  == "Failed to parse receipt purchaseTime."
MsgItem  == "Failed to parse price to float for item: "
MsgNotFound == "Points not found for that id."

\* message is the literal of the code, item the description appended to it
Message(status, message, item) ==
    [status |-> status, kind |-> "message", message |-> message, item |-> item,
     id |-> 0, points |-> 0]

Created(id) ==
    [status |-> StatusCreated, kind |-> "id", message |-> "", item |-> <<>>,
     id |-> id, points |-> 0]

Points(points) ==
    [status |-> StatusOK, kind |-> "points", message |-> "", item |-> <<>>,
     id |-> 0, points |-> points]

NoResponse ==
    [status |-> 0, kind |-> "none", message |-> "", item |-> <<>>, id |-> 0, points |-> 0]

----------------------------------------------------------------------------
(* scanReceipt: validation and scoring, main.go:48-130 *)

\* a mutant of FirstParseError: the time checked before the date
FirstParseErrorTimeFirst(r) ==
    IF ~ParseFloat(r.Total).ok THEN MsgTotal
    ELSE IF ~ParseTime(r.Time).ok THEN MsgTime
    ELSE IF ~ParseDate(r.Date).ok THEN MsgDate
    ELSE ""

\* lines 48-76: the first of total, date, time that does not parse ("" if none)
FirstParseError(r) ==
    IF ~ParseFloat(r.Total).ok THEN MsgTotal
    ELSE IF ~ParseDate(r.Date).ok THEN MsgDate
    ELSE IF ~ParseTime(r.Time).ok THEN MsgTime
    ELSE ""

\* lines 81-88
RetailerPoints(retailer) ==
    Cardinality({i \in 1..Len(retailer) :
                    UnicodeIsLetter(retailer[i]) \/ UnicodeIsDigit(retailer[i])})

\* lines 90-93
RoundDollarPoints(receiptTotal) == IF FloorIsSelf(receiptTotal) THEN 50 ELSE 0

\* lines 95-98
QuarterPoints(receiptTotal) == IF ModQuarterIsZero(receiptTotal) THEN 25 ELSE 0

\* a mutant of ItemPairPoints: 2.5 points an item, rounded down
ItemPairPointsRounded(items) == (5 * Len(items)) \div 2

\* lines 100-101
ItemPairPoints(items) == 5 * (Len(items) \div 2)

\* line 107
TrimmedDescLength(item) == ByteLen(TrimSpace(item.Description))

\* a mutant of ItemLoop: every price parsed, before the length is looked at
RECURSIVE ItemLoopEager(_, _, _)
ItemLoopEager(items, i, totalPoints) ==
    IF i > Len(items) THEN [ok |-> TRUE, item |-> <<>>, points |-> totalPoints]
    ELSE IF ~ParseFloat(items[i].Price).ok
         THEN [ok |-> FALSE, item |-> items[i].Description, points |-> totalPoints]
         ELSE ItemLoopEager(items, i + 1,
                  IF TrimmedDescLength(items[i]) % 3 = 0
                  THEN totalPoints + CeilFifth(ParseFloat(items[i].Price))
                  ELSE totalPoints)

\* lines 106-119: the loop from item i on, totalPoints so far
RECURSIVE ItemLoop(_, _, _)
ItemLoop(items, i, totalPoints) ==
    IF i > Len(items) THEN [ok |-> TRUE, item |-> <<>>, points |-> totalPoints]
    ELSE IF TrimmedDescLength(items[i]) % 3 = 0
         THEN LET priceFloat == ParseFloat(items[i].Price)
              IN  IF ~priceFloat.ok
                  THEN [ok |-> FALSE, item |-> items[i].Description, points |-> totalPoints]
                  ELSE ItemLoop(items, i + 1, totalPoints + CeilFifth(priceFloat))
         ELSE ItemLoop(items, i + 1, totalPoints)

\* lines 121-124
OddDayPoints(receiptDate) == IF receiptDate.day % 2 # 0 THEN 6 ELSE 0

\* a mutant of AfternoonPoints: 14:00 counted as after 2:00pm
AfternoonPointsFromTwo(receiptTime) ==
    IF (receiptTime.hour = 14 /\ receiptTime.minute >= 0)
         \/ (receiptTime.hour > 14 /\ receiptTime.hour < 16)
    THEN 10 ELSE 0

\* lines 126-130
AfternoonPoints(receiptTime) ==
    IF (receiptTime.hour = 14 /\ receiptTime.minute > 0)
         \/ (receiptTime.hour > 14 /\ receiptTime.hour < 16)
    THEN 10 ELSE 0

\* lines 48-130 for a bound receipt: the error response, or totalPoints
ScoreReceipt(r) ==
    IF FirstParseError(r) # ""
    THEN [ok |-> FALSE, message |-> FirstParseError(r), item |-> <<>>, points |-> 0]
    ELSE LET receiptTotal == ParseFloat(r.Total)
             afterTotal   == RetailerPoints(r.Retailer) + RoundDollarPoints(receiptTotal)
                               + QuarterPoints(receiptTotal) + ItemPairPoints(r.Items)
             loop         == ItemLoop(r.Items, 1, afterTotal)
         IN  IF ~loop.ok
             THEN [ok |-> FALSE, message |-> MsgItem, item |-> loop.item, points |-> loop.points]
             ELSE [ok |-> TRUE, message |-> "", item |-> <<>>,
                   points |-> loop.points + OddDayPoints(ParseDate(r.Date))
                                + AfternoonPoints(ParseTime(r.Time))]

\* lines 36-130 for a request: BindJSON first
HandleScan(req) ==
    IF req.json # "ok"
    THEN [ok |-> FALSE, message |-> MsgBind, item |-> <<>>, points |-> 0]
    ELSE ScoreReceipt(req.receipt)

----------------------------------------------------------------------------
(* Inputs *)

Item(description, price) == [Description |-> description, Price |-> price]

Receipt(retailer, date, time, items, total) ==
    [Retailer |-> retailer, Date |-> date, Time |-> time, Items |-> items, Total |-> total]

\* the HH:MM string of hour h, minute m
TimeStr(h, m) ==
    <<DigitChars[(h \div 10) + 1], DigitChars[(h % 10) + 1], ":",
      DigitChars[(m \div 10) + 1], DigitChars[(m % 10) + 1]>>

Retailers ==
    {<<"M","&","M"," ","7">>,
     <<"T","a","r","g","e","t">>,
     <<"C","a","f","U+00E9"," ","U+0663">>}

Totals ==
    {<<"1","0",".","1","0">>,
     <<"1","0","0",".","0","0">>,
     <<"3","5",".","3","5">>,
     <<"9",".","2","5">>,
     <<"5">>,
     <<".","5">>,
     <<"1","e","1">>,
     <<"-","1",".","0","0">>,
     <<"I","n","f">>,
     <<"-","i","n","f">>,
     <<"N","a","N">>,
     <<"a","b","c">>,
     <<>>,
     <<"1",".","2",".","3">>,
     <<"1","0",".","1","e">>}

Dates ==
    {<<"2","0","2","2","-","0","1","-","0","1">>,
     <<"2","0","2","2","-","0","1","-","0","2">>,
     <<"2","0","2","4","-","0","2","-","2","9">>,
     <<"2","0","2","3","-","0","2","-","2","9">>,
     <<"2","0","2","2","-","0","2","-","3","0">>,
     <<"2","0","2","2","-","1","-","0","1">>,
     <<>>,
     <<"2","0","2","2","-","1","3","-","0","1">>}

Times ==
    {TimeStr(h, m) : h \in 13..16, m \in {0, 1, 59}} \cup
    {<<"9",":","0","5">>,
     <<"0","0",":","0","0">>,
     <<"2","3",":","5","9">>,
     <<"2","4",":","0","0">>,
     <<"1","4",":","6","0">>,
     <<"1","4","0","1">>,
     <<>>,
     <<"1","4",":","5">>}

Gum    == <<"G","u","m">>
Soda   == <<"S","o","d","a">>
Blank  == <<" "," "," ">>
\* three runes, four bytes
Uab    == <<"U+00FC","a","b">>
\* two runes, three bytes
Ua     == <<"U+00FC","a">>
\* "Gum" between a tab and a NO-BREAK SPACE
PadGum == <<"\t","G","u","m","U+00A0">>
NotANumber == <<"a","b","c">>

ItemLists ==
    {<<>>,
     <<Item(Gum, <<"2",".","5","0">>)>>,
     <<Item(Gum, <<"5",".","0","0">>), Item(Soda, NotANumber)>>,
     <<Item(Soda, <<"2",".","5","0">>), Item(Gum, NotANumber), Item(Blank, <<>>)>>,
     <<Item(Gum, <<"5",".","0","0">>), Item(PadGum, <<"1","2",".","2","5">>), Item(Gum, NotANumber)>>,
     <<Item(Blank, <<"1","2",".","2","5">>), Item(Soda, <<"2",".","5","0">>), Item(Soda, <<"2",".","5","0">>), Item(Soda, NotANumber)>>,
     <<Item(Uab, <<"5",".","0","0">>)>>,
     <<Item(Ua, <<"5",".","0","0">>)>>,
     <<Item(Uab, NotANumber)>>,
     <<Item(Ua, NotANumber)>>}

BaseReceipt == Receipt(<<"M","&","M"," ","7">>, <<"2","0","2","2","-","0","1","-","0","2">>, <<"1","3",":","0","1">>, <<>>, <<"1","0",".","1","0">>)

\* the receipt of the end-to-end example (28 points)
TargetReceipt ==
    Receipt(<<"T","a","r","g","e","t">>, <<"2","0","2","2","-","0","1","-","0","1">>, <<"1","3",":","0","1">>,
            <<Item(<<"M","o","u","n","t","a","i","n"," ","D","e","w"," ","1","2","P","K">>, <<"6",".","4","9">>),
              Item(<<"E","m","i","l","s"," ","C","h","e","e","s","e"," ","P","i","z","z","a">>, <<"1","2",".","2","5">>),
              Item(<<"K","n","o","r","r"," ","C","r","e","a","m","y"," ","C","h","i","c","k","e","n">>, <<"1",".","2","6">>),
              Item(<<"D","o","r","i","t","o","s"," ","N","a","c","h","o"," ","C","h","e","e","s","e">>, <<"3",".","3","5">>),
              Item(<<" "," "," ","K","l","a","r","b","r","u","n","n"," ","1","2","-","P","K"," ","1","2"," ","F","L"," ","O","Z"," "," ">>, <<"1","2",".","0","0">>)>>,
            <<"3","5",".","3","5">>)

\* every field good or bad, to meet several malformed fields at once
Mixed ==
    {Receipt(<<"M","&","M"," ","7">>, d, tm, it, tot) :
        d \in {<<"2","0","2","2","-","0","1","-","0","1">>, <<"2","0","2","2","-","0","2","-","3","0">>},
        tm \in {<<"1","5",":","0","0">>, <<"2","4",":","0","0">>},
        it \in {<<Item(Gum, <<"5",".","0","0">>)>>, <<Item(Gum, NotANumber)>>},
        tot \in {<<"9",".","2","5">>, <<"a","b","c">>}}

Receipts ==
    {[BaseReceipt EXCEPT !.Retailer = x] : x \in Retailers}
      \cup {[BaseReceipt EXCEPT !.Total = x] : x \in Totals}
      \cup {[BaseReceipt EXCEPT !.Date = x] : x \in Dates}
      \cup {[BaseReceipt EXCEPT !.Time = x] : x \in Times}
      \cup {[BaseReceipt EXCEPT !.Items = x] : x \in ItemLists}
      \cup Mixed \cup {TargetReceipt}

Bound(r) == [json |-> "ok", receipt |-> r]

\* a body BindJSON rejects
BadBody == [json |-> "bad", receipt |-> Receipt(<<>>, <<>>, <<>>, <<>>, <<>>)]

NoRequest == [json |-> "none", receipt |-> Receipt(<<>>, <<>>, <<>>, <<>>, <<>>)]

Requests == {Bound(r) : r \in Receipts} \cup {BadBody}

\* the requests of the concurrent specification: two receipts of equal score,
\* one of another score, three that fail
FewRequests ==
    {Bound(BaseReceipt),
     Bound([BaseReceipt EXCEPT !.Retailer = <<"7","&","7"," ","M">>]),
     Bound([BaseReceipt EXCEPT !.Total = <<"1","0","0",".","0","0">>]),
     Bound([BaseReceipt EXCEPT !.Items = <<Item(Gum, <<"5",".","0","0">>), Item(PadGum, <<"1","2",".","2","5">>), Item(Gum, NotANumber)>>]),
     Bound([BaseReceipt EXCEPT !.Date = <<"2","0","2","3","-","0","2","-","2","9">>]),
     BadBody}

----------------------------------------------------------------------------
(* The map and the identifiers *)

\* uuid.New().String(), line 132: an identifier no earlier call returned;
\* identifier k is the k-th one generated
NewUUID(count) == count + 1

\* a mutant of MapAssign: the map replaced by one holding the new entry alone
MapAssignOnly(m, k, v) == [x \in {k} |-> v]

\* receiptPoints[uniqueID] = totalPoints, line 133
MapAssign(m, k, v) == [x \in DOMAIN m \cup {k} |-> IF x = k THEN v ELSE m[x]]

\* points, exists := receiptPoints[inputId], line 144
MapLookup(m, k) ==
    [exists |-> k \in DOMAIN m, points |-> IF k \in DOMAIN m THEN m[k] ELSE 0]

\* scanReceipt up to line 130, by request
AllRequests == Requests \cup FewRequests

Scored == [req \in AllRequests |-> HandleScan(req)]

\* lines 146-156
LookupResponse(found) ==
    IF found.exists THEN Points(found.points)
    ELSE Message(StatusNotFound, MsgNotFound, <<>>)

Handlers == 1..NumHandlers

Init ==
    /\ receiptPoints = <<>>
    /\ uuidCount = 0
    /\ lastReq = [op |-> "none", req |-> NoRequest, id |-> 0]
    /\ lastResp = NoResponse
    /\ log = <<>>
    /\ pc = [h \in Handlers |-> "idle"]
    /\ local = [h \in Handlers |-> [id |-> 0, points |-> 0]]
    /\ resp = [h \in Handlers |-> NoResponse]
    /\ raced = {}
    /\ crashed = FALSE

----------------------------------------------------------------------------
(* The handlers, one request at a time *)

\* a mutant of ScanReceipt: no return after the item-price error of line 111,
\* so the points accumulated so far are recorded
ScanReceiptNoReturn(req) ==
    /\ lastReq' = [op |-> "scan", req |-> req, id |-> 0]
    /\ IF Scored[req].ok \/ Scored[req].message = MsgItem
       THEN /\ receiptPoints' = MapAssign(receiptPoints, NewUUID(uuidCount), Scored[req].points)
            /\ uuidCount' = uuidCount + 1
            /\ lastResp' = IF Scored[req].ok THEN Created(NewUUID(uuidCount))
                           ELSE Message(StatusBadRequest, Scored[req].message, Scored[req].item)
            /\ log' = IF Scored[req].ok
                      THEN Append(log, [id |-> NewUUID(uuidCount), points |-> Scored[req].points])
                      ELSE log
       ELSE /\ lastResp' = Message(StatusBadRequest, Scored[req].message, Scored[req].item)
            /\ UNCHANGED <<receiptPoints, uuidCount, log>>
    /\ UNCHANGED <<pc, local, resp, raced, crashed>>

\* scanReceipt, lines 36-139
ScanReceipt(req) ==
    /\ lastReq' = [op |-> "scan", req |-> req, id |-> 0]
    /\ IF Scored[req].ok
       THEN LET uniqueID == NewUUID(uuidCount)
            IN  /\ receiptPoints' = MapAssign(receiptPoints, uniqueID, Scored[req].points)
                /\ uuidCount' = uuidCount + 1
                /\ lastResp' = Created(uniqueID)
                /\ log' = Append(log, [id |-> uniqueID, points |-> Scored[req].points])
       ELSE /\ lastResp' = Message(StatusBadRequest, Scored[req].message, Scored[req].item)
            /\ UNCHANGED <<receiptPoints, uuidCount, log>>
    /\ UNCHANGED <<pc, local, resp, raced, crashed>>

\* a mutant of GetPoints: the read of a missing key adds it with the zero value
GetPointsInserting(inputId) ==
    /\ lastReq' = [op |-> "get", req |-> NoRequest, id |-> inputId]
    /\ lastResp' = LookupResponse(MapLookup(receiptPoints, inputId))
    /\ receiptPoints' = IF inputId \in DOMAIN receiptPoints THEN receiptPoints
                        ELSE MapAssign(receiptPoints, inputId, 0)
    /\ UNCHANGED <<uuidCount, log, pc, local, resp, raced, crashed>>

\* getPoints, lines 142-157
GetPoints(inputId) ==
    /\ lastReq' = [op |-> "get", req |-> NoRequest, id |-> inputId]
    /\ lastResp' = LookupResponse(MapLookup(receiptPoints, inputId))
    /\ UNCHANGED <<receiptPoints, uuidCount, log, pc, local, resp, raced, crashed>>

\* every request of Requests, served in turn; at most MaxReceipts records
Next ==
    \/ \E req \in Requests :
          /\ Scored[req].ok => uuidCount < MaxReceipts
          /\ ScanReceipt(req)
    \/ \E inputId \in 0..MaxReceipts : GetPoints(inputId)

Spec == Init /\ [][Next]_vars

----------------------------------------------------------------------------
(* The handlers as goroutines: net/http serves every connection in its own *)
(* goroutine, so calls of scanReceipt and getPoints overlap.  The code     *)
(* takes no lock: a map access spans two steps, and an access that         *)
(* overlaps a write of the map is a data race, whose outcome is one of:    *)
(* the access takes effect, it is lost or misses, or the runtime throws    *)
(* "concurrent map writes" / "concurrent map read and map write".          *)

InMap(h) == pc[h] \in {"mapassign", "mapaccess"}

\* scanReceipt, lines 36-132, and the entry into the assignment of line 133
ScanReceiptEnter(h, req) ==
    /\ ~crashed
    /\ pc[h] = "idle"
    /\ IF Scored[req].ok
       THEN /\ uuidCount < MaxReceipts
            /\ uuidCount' = uuidCount + 1
            /\ local' = [local EXCEPT ![h] = [id |-> NewUUID(uuidCount),
                                              points |-> Scored[req].points]]
            /\ pc' = [pc EXCEPT ![h] = "mapassign"]
            /\ raced' = IF \E g \in Handlers : InMap(g)
                        THEN raced \cup {h} \cup {g \in Handlers : InMap(g)}
                        ELSE raced
            /\ UNCHANGED resp
       ELSE /\ resp' = [resp EXCEPT ![h] =
                          Message(StatusBadRequest, Scored[req].message, Scored[req].item)]
            /\ UNCHANGED <<uuidCount, local, pc, raced>>
    /\ UNCHANGED <<receiptPoints, lastReq, lastResp, log, crashed>>

\* the end of the assignment of line 133, and lines 135-138
MapAssignReturn(h) ==
    /\ ~crashed
    /\ pc[h] = "mapassign"
    /\ \E outcome \in IF h \in raced THEN {"stored", "lost", "fatal"} ELSE {"stored"} :
          /\ receiptPoints' = IF outcome = "stored"
                              THEN MapAssign(receiptPoints, local[h].id, local[h].points)
                              ELSE receiptPoints
          /\ crashed' = (outcome = "fatal")
          /\ IF outcome = "fatal"
             THEN UNCHANGED <<pc, resp, raced>>
             ELSE /\ pc' = [pc EXCEPT ![h] = "idle"]
                  /\ resp' = [resp EXCEPT ![h] = Created(local[h].id)]
                  /\ raced' = raced \ {h}
    /\ UNCHANGED <<uuidCount, local, lastReq, lastResp, log>>

\* getPoints, line 143, and the entry into the map read of line 144
GetPointsEnter(h, inputId) ==
    /\ ~crashed
    /\ pc[h] = "idle"
    /\ pc' = [pc EXCEPT ![h] = "mapaccess"]
    /\ local' = [local EXCEPT ![h] = [id |-> inputId, points |-> 0]]
    /\ raced' = IF \E g \in Handlers : pc[g] = "mapassign"
                THEN raced \cup {h} \cup {g \in Handlers : pc[g] = "mapassign"}
                ELSE raced
    /\ UNCHANGED <<receiptPoints, uuidCount, resp, lastReq, lastResp, log, crashed>>

\* the end of the map read of line 144, and lines 146-156
MapAccessReturn(h) ==
    /\ ~crashed
    /\ pc[h] = "mapaccess"
    /\ \E outcome \in IF h \in raced THEN {"read", "miss", "fatal"} ELSE {"read"} :
          /\ crashed' = (outcome = "fatal")
          /\ IF outcome = "fatal"
             THEN UNCHANGED <<pc, resp, raced>>
             ELSE /\ pc' = [pc EXCEPT ![h] = "idle"]
                  /\ resp' = [resp EXCEPT ![h] =
                                IF outcome = "read"
                                THEN LookupResponse(MapLookup(receiptPoints, local[h].id))
                                ELSE LookupResponse(MapLookup(<<>>, local[h].id))]
                  /\ raced' = raced \ {h}
    /\ UNCHANGED <<receiptPoints, uuidCount, local, lastReq, lastResp, log>>

NextConcurrent ==
    \E h \in Handlers :
        \/ \E req \in FewRequests : ScanReceiptEnter(h, req)
        \/ MapAssignReturn(h)
        \/ \E inputId \in 0..MaxReceipts : GetPointsEnter(h, inputId)
        \/ MapAccessReturn(h)

SpecConcurrent == Init /\ [][NextConcurrent]_vars

----------------------------------------------------------------------------
(* What the claims read of a state *)

\* the serial server has just handled a submission whose body bound
ScanDone == lastReq.op = "scan" /\ lastReq.req.json = "ok"

\* ... and answered 201
ScanOK == ScanDone /\ lastResp.status = StatusCreated

\* the receipt submitted last
R == lastReq.req.receipt

\* the score recorded under the identifier just returned
Stored == receiptPoints[lastResp.id]

Noon == TimeStr(12, 0)

PlainTotal == <<"1","0",".","1","0">>

\* the minute of the day of a parsed time
MinuteOfDay(t) == 60 * t.hour + t.minute

----------------------------------------------------------------------------
(* C1: under concurrent handler invocations no two handlers are inside an  *)
(* access of the receiptPoints map at the same time when one of them is    *)
(* writing it (every access is inside a mutual-exclusion guard).           *)
MapAccessGuarded ==
    \A g \in Handlers : \A h \in Handlers :
        (g # h /\ pc[g] = "mapassign") => ~InMap(h)

----------------------------------------------------------------------------
(* C2: validation runs in the order total, date, time, item prices and     *)
(* stops at the first failure: a malformed total answers the total         *)
(* message whatever else is malformed, a malformed date (total good) the   *)
(* date message, a malformed time (total and date good) the time message,  *)
(* the item-price message is given only when all three parse, and the four *)
(* messages are pairwise distinct.                                         *)
ValidationOrder ==
    /\ Cardinality({MsgTotal, MsgDate, MsgTime, MsgItem}) = 4
    /\ ScanDone =>
        /\ ~ParseFloat(R.Total).ok
              => lastResp = Message(StatusBadRequest, MsgTotal, <<>>)
        /\ (ParseFloat(R.Total).ok /\ ~ParseDate(R.Date).ok)
              => lastResp = Message(StatusBadRequest, MsgDate, <<>>)
        /\ (ParseFloat(R.Total).ok /\ ParseDate(R.Date).ok /\ ~ParseTime(R.Time).ok)
              => lastResp = Message(StatusBadRequest, MsgTime, <<>>)
        /\ lastResp.message = MsgItem
              => (ParseFloat(R.Total).ok /\ ParseDate(R.Date).ok /\ ParseTime(R.Time).ok)

\* a receipt with a good total, a bad date, a bad time and a bad item price
\* was answered with the date message
ValidationOrderWitness ==
    /\ ScanDone
    /\ ParseFloat(R.Total).ok /\ ~ParseDate(R.Date).ok /\ ~ParseTime(R.Time).ok
    /\ R.Items = <<Item(Gum, NotANumber)>>
    /\ lastResp.message = MsgDate

----------------------------------------------------------------------------
(* C3: a submission that fails (at any step, also at an item price after   *)
(* points were accumulated) leaves the map as it was and returns no        *)
(* identifier; a submission that succeeds adds exactly one entry, under an *)
(* identifier that was not in the map.                                     *)
FailedScanKeepsLedger ==
    [][lastReq'.op = "scan" =>
          IF lastResp'.status = StatusCreated
          THEN /\ lastResp'.id \notin DOMAIN receiptPoints
               /\ DOMAIN receiptPoints' = DOMAIN receiptPoints \cup {lastResp'.id}
               /\ \A k \in DOMAIN receiptPoints : receiptPoints'[k] = receiptPoints[k]
               /\ Len(log') = Len(log) + 1
          ELSE /\ receiptPoints' = receiptPoints
               /\ lastResp'.status = StatusBadRequest
               /\ lastResp'.kind = "message"
               /\ log' = log]_vars

\* the third item's price failed after the first two had earned points, with
\* a record already in the map
FailedScanWitness ==
    /\ ScanDone
    /\ lastResp = Message(StatusBadRequest, MsgItem, Gum)
    /\ Len(R.Items) = 3
    /\ Scored[lastReq.req].points > Scored[Bound(BaseReceipt)].points
    /\ DOMAIN receiptPoints # {}

----------------------------------------------------------------------------
(* C4: the identifiers of the 201 responses are pairwise distinct, the map *)
(* holds under each the score of its own submission whatever was handled   *)
(* since, and a lookup of an issued identifier answers that score.         *)
LedgerKeepsEveryRecord ==
    /\ \A i \in 1..Len(log) : \A j \in 1..Len(log) :
          i # j => log[i].id # log[j].id
    /\ \A i \in 1..Len(log) :
          MapLookup(receiptPoints, log[i].id) = [exists |-> TRUE, points |-> log[i].points]
    /\ \A i \in 1..Len(log) :
          (lastReq.op = "get" /\ lastReq.id = log[i].id)
              => lastResp = Points(log[i].points)

\* two records of the same score, the first looked up after the second
LedgerWitness ==
    /\ Len(log) = 2
    /\ log[1].points = log[2].points
    /\ lastReq.op = "get" /\ lastReq.id = log[1].id
    /\ lastResp.status = StatusOK

----------------------------------------------------------------------------
(* C5: a lookup leaves the map as it was; for an identifier in the map it  *)
(* answers the stored score, for any other the 404 message "Points not     *)
(* found for that id.", and adds no entry for it.                          *)
LookupIsReadOnly ==
    [][lastReq'.op = "get" =>
          /\ receiptPoints' = receiptPoints
          /\ IF lastReq'.id \in DOMAIN receiptPoints
             THEN lastResp' = Points(receiptPoints[lastReq'.id])
             ELSE /\ lastResp' = Message(StatusNotFound, MsgNotFound, <<>>)
                  /\ lastReq'.id \notin DOMAIN receiptPoints']_vars

\* an identifier never issued was looked up in a map that holds a record
LookupWitness ==
    /\ lastReq.op = "get"
    /\ lastReq.id \notin DOMAIN receiptPoints
    /\ DOMAIN receiptPoints # {}
    /\ lastResp.status = StatusNotFound

----------------------------------------------------------------------------
(* C6: the afternoon bonus is 10 exactly from 14:01 to 15:59: for every    *)
(* hour and minute, and for every scored receipt, whose score exceeds that *)
(* of the same receipt bought at noon by 10 in the window and by 0         *)
(* outside it.                                                             *)
AfternoonEveryMinute ==
    \A h \in 0..23 : \A m \in 0..59 :
        AfternoonPoints([hour |-> h, minute |-> m])
            = IF 14 * 60 + 1 <= 60 * h + m /\ 60 * h + m <= 15 * 60 + 59 THEN 10 ELSE 0

AfternoonBonusWindow ==
    /\ AfternoonEveryMinute
    /\ ScanOK =>
          Stored - ScoreReceipt([R EXCEPT !.Time = Noon]).points
            = IF 14 * 60 < MinuteOfDay(ParseTime(R.Time))
                   /\ MinuteOfDay(ParseTime(R.Time)) < 16 * 60
              THEN 10 ELSE 0

\* a receipt bought at 14:00 was scored, without the bonus
AfternoonWitness ==
    /\ ScanOK
    /\ R.Time = TimeStr(14, 0)
    /\ Stored = ScoreReceipt([R EXCEPT !.Time = Noon]).points

----------------------------------------------------------------------------
(* C7: the description bonus goes by the number of characters of the       *)
(* trimmed description: a scored receipt (all of whose prices parse)       *)
(* exceeds the same receipt with descriptions that earn nothing by the sum *)
(* of ceil(price * 0.2) over the items whose trimmed description has a     *)
(* character count divisible by 3.                                         *)
AllPricesParse(items) == \A i \in 1..Len(items) : ParseFloat(items[i].Price).ok

\* the items with a description of four characters, four bytes
Unqualified(items) == [i \in 1..Len(items) |-> Item(Soda, items[i].Price)]

RECURSIVE CharacterBonus(_)
CharacterBonus(items) ==
    IF items = <<>> THEN 0
    ELSE (IF RuneCount(TrimSpace(Head(items).Description)) % 3 = 0
          THEN CeilFifth(ParseFloat(Head(items).Price)) ELSE 0)
           + CharacterBonus(Tail(items))

DescriptionBonusByCharacters ==
    (ScanOK /\ AllPricesParse(R.Items)) =>
        Stored - ScoreReceipt([R EXCEPT !.Items = Unqualified(R.Items)]).points
          = CharacterBonus(R.Items)

\* what the code does: the same with the number of bytes, which is the
\* number of characters of an ASCII description
RECURSIVE ByteBonus(_)
ByteBonus(items) ==
    IF items = <<>> THEN 0
    ELSE (IF ByteLen(TrimSpace(Head(items).Description)) % 3 = 0
          THEN CeilFifth(ParseFloat(Head(items).Price)) ELSE 0)
           + ByteBonus(Tail(items))

DescriptionBonusByBytes ==
    (ScanOK /\ AllPricesParse(R.Items)) =>
        Stored - ScoreReceipt([R EXCEPT !.Items = Unqualified(R.Items)]).points
          = ByteBonus(R.Items)

----------------------------------------------------------------------------
(* C8: prices are parsed lazily.  With total, date and time good, the      *)
(* answer is the item-price error iff some item whose trimmed description  *)
(* length (len, as line 107 takes it) is divisible by 3 has a malformed    *)
(* price, and the error carries the description of the first such item;    *)
(* otherwise the receipt is scored and recorded, malformed prices of the   *)
(* other items notwithstanding.                                            *)
MalformedQualifying(items) ==
    {i \in 1..Len(items) :
        TrimmedDescLength(items[i]) % 3 = 0 /\ ~ParseFloat(items[i].Price).ok}

First(S) == CHOOSE i \in S : \A j \in S : i <= j

LazyItemPrices ==
    (ScanDone /\ ParseFloat(R.Total).ok /\ ParseDate(R.Date).ok /\ ParseTime(R.Time).ok) =>
        IF MalformedQualifying(R.Items) = {}
        THEN /\ lastResp.status = StatusCreated
             /\ lastResp.id \in DOMAIN receiptPoints
        ELSE lastResp = Message(StatusBadRequest, MsgItem,
                                R.Items[First(MalformedQualifying(R.Items))].Description)

\* a receipt was scored and recorded although one of its prices is malformed
LazyWitness ==
    /\ ScanOK
    /\ \E i \in 1..Len(R.Items) : ~ParseFloat(R.Items[i].Price).ok
    /\ lastResp.id \in DOMAIN receiptPoints

----------------------------------------------------------------------------
(* C9: the total earns 50 iff it has zero cents and 25 iff it is a         *)
(* multiple of 0.25, so that what a scored receipt earns over the same     *)
(* receipt with total 10.10 is 0, 25 or 75, never 50 alone; 100.00 earns   *)
(* 75 and 10.10 earns 0.                                                   *)
IsWholeAmount(x) == x.kind = "fin" /\ x.mant % Pow10(x.scale) = 0

IsQuarterMultiple(x) == x.kind = "fin" /\ (4 * x.mant) % Pow10(x.scale) = 0

TotalBonus == Stored - ScoreReceipt([R EXCEPT !.Total = PlainTotal]).points

RoundAndQuarterBonus ==
    ScanOK =>
        /\ TotalBonus = (IF IsWholeAmount(ParseFloat(R.Total)) THEN 50 ELSE 0)
                          + (IF IsQuarterMultiple(ParseFloat(R.Total)) THEN 25 ELSE 0)
        /\ TotalBonus \in {0, 25, 75}
        /\ R.Total = <<"1","0","0",".","0","0">> => TotalBonus = 75
        /\ R.Total = PlainTotal => TotalBonus = 0

\* what the code does: the same for every total that is a finite number
RoundAndQuarterBonusFinite ==
    (ScanOK /\ ParseFloat(R.Total).kind = "fin") =>
        /\ TotalBonus = (IF IsWholeAmount(ParseFloat(R.Total)) THEN 50 ELSE 0)
                          + (IF IsQuarterMultiple(ParseFloat(R.Total)) THEN 25 ELSE 0)
        /\ TotalBonus \in {0, 25, 75}

----------------------------------------------------------------------------
(* C10: the score recorded for a receipt is the sum of the seven rule      *)
(* contributions and nothing else (the description length taken as line    *)
(* 107 takes it), a lookup answers a recorded score, and the end-to-end    *)
(* example receipt scores 28.                                              *)
RECURSIVE LettersAndDigits(_)
LettersAndDigits(s) ==
    IF s = <<>> THEN 0
    ELSE (IF UnicodeIsLetter(Head(s)) \/ UnicodeIsDigit(Head(s)) THEN 1 ELSE 0)
           + LettersAndDigits(Tail(s))

RuleSum(r) ==
    LettersAndDigits(r.Retailer)
      + (IF FloorIsSelf(ParseFloat(r.Total)) THEN 50 ELSE 0)
      + (IF ModQuarterIsZero(ParseFloat(r.Total)) THEN 25 ELSE 0)
      + 5 * ((Len(r.Items) - (Len(r.Items) % 2)) \div 2)
      + ByteBonus(r.Items)
      + (IF ParseDate(r.Date).day % 2 = 1 THEN 6 ELSE 0)
      + (IF 14 * 60 < MinuteOfDay(ParseTime(r.Time))
              /\ MinuteOfDay(ParseTime(r.Time)) < 16 * 60 THEN 10 ELSE 0)

ScoreIsRuleSum ==
    /\ ScanOK => Stored = RuleSum(R)
    /\ (ScanOK /\ R = TargetReceipt) => Stored = 28
    /\ (lastReq.op = "get" /\ lastResp.status = StatusOK)
          => \E i \in 1..Len(log) : log[i].id = lastReq.id /\ log[i].points = lastResp.points

\* the example receipt was scored 28, five items earning the pair bonus twice
RuleSumWitness ==
    /\ ScanOK
    /\ R = TargetReceipt
    /\ Len(R.Items) = 5
    /\ Stored = 28

============================================================================
